---------------------------- MODULE Spec2Model ----------------------------
(***************************************************************************)
(* Model of RegexpExtract::invoke_with_args (src/src/regexp_extract.rs):   *)
(* the regexp_extract scalar function over a batch of rows, with the       *)
(* scalar/array broadcasting, the checks on the group index, the per-row   *)
(* compilation of the pattern and the extraction of the capture group.     *)
(*                                                                         *)
(* Strings are sequences of one-character strings.  The regex crate is     *)
(* modelled by a parser (RegexNew) and a backtracking leftmost-first       *)
(* matcher (captures) for the syntax  literal  (e)  e|e  e?  e??           *)
(***************************************************************************)
EXTENDS Integers, Sequences, FiniteSets, TLC

(***************************************************************************)
(* Bounds of the model.                                                    *)
(***************************************************************************)
\* largest batch row count (args.number_rows)
MaxRows == 2
\* largest group index drawn; the smallest is -1
MaxIdx == 2

(***************************************************************************)
(* The regex crate: Regex::new                                             *)
(***************************************************************************)
Literals == {"a", "b", "-"}

Eps == [t |-> "eps"]
Lit(c) == [t |-> "lit", c |-> c]
Cat(l, r) == [t |-> "cat", l |-> l, r |-> r]
Alt(l, r) == [t |-> "alt", l |-> l, r |-> r]
Grp(n, e) == [t |-> "grp", n |-> n, e |-> e]
Opt(e, greedy) == [t |-> "opt", e |-> e, greedy |-> greedy]

ParseOk(node, pos, ng) == [ok |-> TRUE, node |-> node, pos |-> pos, ng |-> ng, err |-> ""]
ParseErr(pos, msg) == [ok |-> FALSE, node |-> Eps, pos |-> pos, ng |-> 0, err |-> msg]

\* a trailing ? makes the atom optional (greedy); ?? makes it optional (lazy)
Postfix(p, r) ==
    IF r.pos <= Len(p) /\ p[r.pos] = "?"
    THEN IF r.pos + 1 <= Len(p) /\ p[r.pos + 1] = "?"
         THEN ParseOk(Opt(r.node, FALSE), r.pos + 2, r.ng)
         ELSE ParseOk(Opt(r.node, TRUE), r.pos + 1, r.ng)
    ELSE r

RECURSIVE ParseAlt(_, _, _)
RECURSIVE ParseConcat(_, _, _)

\* the end of the group opened at pos, numbered n, whose inside parsed as r
CloseGroup(p, pos, n, r) ==
    IF ~r.ok THEN r
    ELSE IF r.pos > Len(p)
         THEN ParseErr(pos, "unclosed group")
         ELSE Postfix(p, ParseOk(Grp(n, r.node), r.pos + 1, r.ng))

\* groups are numbered by the position of their opening parenthesis
ParseAtom(p, pos, ng) ==
    IF p[pos] = "("
    THEN CloseGroup(p, pos, ng + 1, ParseAlt(p, pos + 1, ng + 1))
    ELSE IF p[pos] \in Literals
         THEN Postfix(p, ParseOk(Lit(p[pos]), pos + 1, ng))
         ELSE ParseErr(pos, "repetition operator missing expression")

ConcatJoin(a, rest) ==
    IF ~rest.ok THEN rest
    ELSE ParseOk(Cat(a.node, rest.node), rest.pos, rest.ng)

ConcatRest(p, a) ==
    IF ~a.ok THEN a ELSE ConcatJoin(a, ParseConcat(p, a.pos, a.ng))

ParseConcat(p, pos, ng) ==
    IF pos > Len(p) \/ p[pos] \in {"|", ")"}
    THEN ParseOk(Eps, pos, ng)
    ELSE ConcatRest(p, ParseAtom(p, pos, ng))

AltJoin(l, r) ==
    IF ~r.ok THEN r
    ELSE ParseOk(Alt(l.node, r.node), r.pos, r.ng)

AltRest(p, l) ==
    IF ~l.ok THEN l
    ELSE IF l.pos <= Len(p) /\ p[l.pos] = "|"
         THEN AltJoin(l, ParseAlt(p, l.pos + 1, l.ng))
         ELSE l

ParseAlt(p, pos, ng) == AltRest(p, ParseConcat(p, pos, ng))

\* a parse that stops before the end of the pattern stopped at a ")"
RegexOf(pattern, r) ==
    IF ~r.ok THEN [ok |-> FALSE, node |-> Eps, ng |-> 0, err |-> r.err]
    ELSE IF r.pos <= Len(pattern)
         THEN [ok |-> FALSE, node |-> Eps, ng |-> 0, err |-> "unopened group"]
         ELSE [ok |-> TRUE, node |-> r.node, ng |-> r.ng, err |-> ""]

\* Regex::new(pattern): Ok(re) or Err(e)
RegexNew(pattern) == RegexOf(pattern, ParseAlt(pattern, 1, 0))

(***************************************************************************)
(* The regex crate: Regex::captures, Captures::len, Captures::get          *)
(***************************************************************************)
\* a group that did not participate in the match has no span
NoSpan == <<>>

\* the spans of n groups before the match: none took part yet
RECURSIVE NoSpans(_)
NoSpans(n) == IF n = 0 THEN <<>> ELSE Append(NoSpans(n - 1), NoSpan)

RECURSIVE Flatten(_)
Flatten(ss) == IF ss = <<>> THEN <<>> ELSE Head(ss) \o Flatten(Tail(ss))

RECURSIVE MatchNode(_, _, _, _)

\* node matched from the end of each match of L, in order
MatchEach(node, s, L) ==
    Flatten([i \in 1..Len(L) |-> MatchNode(node, s, L[i].pos, L[i].caps)])

\* the matches L of the inside of group n, which started at pos
SetSpans(n, pos, L) ==
    [i \in 1..Len(L) |->
        [pos |-> L[i].pos, caps |-> [L[i].caps EXCEPT ![n] = <<pos, L[i].pos>>]]]

\* every way node matches s from pos, in the order of preference
MatchNode(node, s, pos, caps) ==
    CASE node.t = "eps" -> <<[pos |-> pos, caps |-> caps]>>
      [] node.t = "lit" ->
            IF pos <= Len(s) /\ s[pos] = node.c
            THEN <<[pos |-> pos + 1, caps |-> caps]>>
            ELSE <<>>
      [] node.t = "cat" -> MatchEach(node.r, s, MatchNode(node.l, s, pos, caps))
      [] node.t = "alt" ->
            MatchNode(node.l, s, pos, caps) \o MatchNode(node.r, s, pos, caps)
      [] node.t = "grp" -> SetSpans(node.n, pos, MatchNode(node.e, s, pos, caps))
      [] node.t = "opt" ->
            IF node.greedy
            THEN MatchNode(node.e, s, pos, caps) \o <<[pos |-> pos, caps |-> caps]>>
            ELSE <<[pos |-> pos, caps |-> caps]>> \o MatchNode(node.e, s, pos, caps)

NoCaptures == [some |-> FALSE, spans |-> <<>>]

RECURSIVE CapturesFrom(_, _, _)

\* the matches L from start: the first is the match, with the span of group 0
\* (the whole match) at index 1 and of group g at index g + 1
FirstMatch(re, s, start, L) ==
    IF L = <<>> THEN CapturesFrom(re, s, start + 1)
    ELSE [some |-> TRUE, spans |-> <<(<<start, L[1].pos>>)>> \o L[1].caps]

\* the leftmost match starting at or after start
CapturesFrom(re, s, start) ==
    IF start > Len(s) + 1 THEN NoCaptures
    ELSE FirstMatch(re, s, start,
                    MatchNode(re.node, s, start, NoSpans(re.ng)))

\* compiled_regex.captures(input_val): Option<Captures>
captures(re, s) == CapturesFrom(re, s, 1)

\* captures.len(): the number of groups of the regex, group 0 included
captures_len(caps) == Len(caps.spans)

\* captures.get(i as usize): Option<Match>; None for a group that did not
\* participate and for an index that is no group (a negative i cast to usize
\* is above every group count)
captures_get(caps, i) ==
    IF i >= 0 /\ i + 1 <= Len(caps.spans) /\ caps.spans[i + 1] # NoSpan
    THEN [some |-> TRUE, span |-> caps.spans[i + 1]]
    ELSE [some |-> FALSE, span |-> NoSpan]

\* Match::as_str(): the text between the span's ends
as_str(s, span) == SubSeq(s, span[1], span[2] - 1)

(***************************************************************************)
(* Arrow and DataFusion values                                             *)
(***************************************************************************)
\* Option<&str>, Option<i64>
Some(v) == [some |-> TRUE, v |-> v]
None == [some |-> FALSE, v |-> <<>>]
IntSome(n) == [some |-> TRUE, v |-> n]
IntNone == [some |-> FALSE, v |-> 0]

\* ColumnarValue::Array(array) and ColumnarValue::Scalar(scalar); a scalar
\* holds its one value in vals
ColumnarArray(dtype, vals) == [dtype |-> dtype, kind |-> "Array", vals |-> vals]
ColumnarScalar(dtype, val) == [dtype |-> dtype, kind |-> "Scalar", vals |-> <<val>>]

\* to_array_of_size gone wrong: a null scalar broadcast as empty values
to_array_of_size_nulls_lost(scalar, num_rows) ==
    [dtype |-> scalar.dtype,
     vals |-> [i \in 1..num_rows |-> [some |-> TRUE, v |-> scalar.vals[1].v]]]

\* ScalarValue::to_array_of_size(num_rows): num_rows copies, of the scalar's type
to_array_of_size(scalar, num_rows) ==
    [dtype |-> scalar.dtype, vals |-> [i \in 1..num_rows |-> scalar.vals[1]]]

\* the broadcast of one argument: an array is taken as it is
to_array(arg, num_rows) ==
    IF arg.kind = "Array"
    THEN [dtype |-> arg.dtype, vals |-> arg.vals]
    ELSE to_array_of_size(arg, num_rows)

extract_input_and_pattern(arg1, arg2, num_rows) ==
    <<to_array(arg1, num_rows), to_array(arg2, num_rows)>>

\* the downcast gone wrong: every array of strings is taken as a StringArray
downcast_ref_AnyString(array_ref) == array_ref.dtype \in {"Utf8", "LargeUtf8"}

\* as_any().downcast_ref::<StringArray>() is Some
downcast_ref_StringArray(array_ref) == array_ref.dtype = "Utf8"

\* StringArray::is_null(i) and StringArray::value(i), rows counted from 1;
\* the value of a null slot is the empty string
is_null(array, i) == ~array.vals[i].some
value(array, i) == array.vals[i].v

(***************************************************************************)
(* invoke_with_args                                                        *)
(***************************************************************************)
\* The outcome of one invocation.  rows is the column returned; compiled
\* lists the rows whose pattern went through Regex::new and built counts the
\* rows appended to the builder when the invocation ended.
OkColumn(rows, compiled) ==
    [kind |-> "Ok", err |-> "", msg |-> "", detail |-> "", rows |-> rows,
     compiled |-> compiled, built |-> Len(rows)]
ErrResult(err, msg, detail, compiled, built) ==
    [kind |-> "Err", err |-> err, msg |-> msg, detail |-> detail, rows |-> <<>>,
     compiled |-> compiled, built |-> built]
PanicResult(compiled, built) ==
    [kind |-> "Panic", err |-> "", msg |-> "called Option::unwrap() on a None value",
     detail |-> "", rows |-> <<>>, compiled |-> compiled, built |-> built]
NotInvoked ==
    [kind |-> "None", err |-> "", msg |-> "", detail |-> "", rows |-> <<>>,
     compiled |-> <<>>, built |-> 0]

\* captures.get(idx).unwrap().as_str(): unwrap panics on None
UnwrapAsStr(input_val, m) ==
    IF m.some
    THEN [panic |-> FALSE, v |-> as_str(input_val, m.span)]
    ELSE [panic |-> TRUE, v |-> <<>>]

\* the match arms gone wrong: captures.get(0) whatever idx is
MatchArmWholeMatch(input_val, caps, idx) ==
    IF caps.some /\ idx < captures_len(caps)
    THEN UnwrapAsStr(input_val, captures_get(caps, 0))
    ELSE [panic |-> FALSE, v |-> <<>>]

\* the match arms gone wrong: the guard idx <= captures.len()
MatchArmOffByOne(input_val, caps, idx) ==
    IF caps.some /\ idx <= captures_len(caps)
    THEN UnwrapAsStr(input_val, captures_get(caps, idx))
    ELSE [panic |-> FALSE, v |-> <<>>]

\* the match arms: Some(captures) if idx < captures.len() appends the group,
\* every other case appends ""
MatchArm(input_val, caps, idx) ==
    IF caps.some /\ idx < captures_len(caps)
    THEN UnwrapAsStr(input_val, captures_get(caps, idx))
    ELSE [panic |-> FALSE, v |-> <<>>]

\* the value of one row with non-null text
RowValue(input_val, compiled_regex, idx) ==
    MatchArm(input_val, captures(compiled_regex, input_val), idx)

RECURSIVE RowLoop(_, _, _, _, _, _, _)

\* the row's value r is appended, or the unwrap panicked
RowAppend(input_array, pattern_array, idx, num_rows, i, string_builder, compiled, r) ==
    IF r.panic
    THEN PanicResult(Append(compiled, i), Len(string_builder))
    ELSE RowLoop(input_array, pattern_array, idx, num_rows, i + 1,
                 Append(string_builder, Some(r.v)), Append(compiled, i))

\* the match on Regex::new gone wrong: an Err appends "" and goes on
RowCompiledSkipsBadPattern(input_array, pattern_array, idx, num_rows, i, string_builder, compiled, compiled_regex) ==
    IF ~compiled_regex.ok
    THEN RowLoop(input_array, pattern_array, idx, num_rows, i + 1,
                 Append(string_builder, Some(<<>>)), Append(compiled, i))
    ELSE RowAppend(input_array, pattern_array, idx, num_rows, i, string_builder, compiled,
                   RowValue(value(input_array, i), compiled_regex, idx))

\* match Regex::new(pattern): an Err returns the execution error
RowCompiled(input_array, pattern_array, idx, num_rows, i, string_builder, compiled, compiled_regex) ==
    IF ~compiled_regex.ok
    THEN ErrResult("Execution", "Error compiling regex", compiled_regex.err,
                   Append(compiled, i), Len(string_builder))
    ELSE RowAppend(input_array, pattern_array, idx, num_rows, i, string_builder, compiled,
                   RowValue(value(input_array, i), compiled_regex, idx))

\* the loop gone wrong: the pattern is compiled before the null check
RowLoopCompileFirst(input_array, pattern_array, idx, num_rows, i, string_builder, compiled) ==
    IF i > num_rows
    THEN OkColumn(string_builder, compiled)
    ELSE IF ~RegexNew(value(pattern_array, i)).ok
    THEN ErrResult("Execution", "Error compiling regex",
                   RegexNew(value(pattern_array, i)).err,
                   Append(compiled, i), Len(string_builder))
    ELSE IF is_null(input_array, i)
    THEN RowLoop(input_array, pattern_array, idx, num_rows, i + 1,
                 Append(string_builder, None), Append(compiled, i))
    ELSE RowCompiled(input_array, pattern_array, idx, num_rows, i, string_builder,
                     compiled, RegexNew(value(pattern_array, i)))

\* the loop gone wrong: the pattern of the first row is used for every row
RowLoopFirstPattern(input_array, pattern_array, idx, num_rows, i, string_builder, compiled) ==
    IF i > num_rows
    THEN OkColumn(string_builder, compiled)
    ELSE IF is_null(input_array, i)
    THEN RowLoop(input_array, pattern_array, idx, num_rows, i + 1,
                 Append(string_builder, None), compiled)
    ELSE RowCompiled(input_array, pattern_array, idx, num_rows, i, string_builder,
                     compiled, RegexNew(value(pattern_array, 1)))

\* for i in 0..num_rows, from row i on, with the builder and the rows compiled so far
RowLoop(input_array, pattern_array, idx, num_rows, i, string_builder, compiled) ==
    IF i > num_rows
    THEN OkColumn(string_builder, compiled)
    ELSE IF is_null(input_array, i)
    THEN RowLoop(input_array, pattern_array, idx, num_rows, i + 1,
                 Append(string_builder, None), compiled)
    ELSE RowCompiled(input_array, pattern_array, idx, num_rows, i, string_builder,
                     compiled, RegexNew(value(pattern_array, i)))

\* the index match gone wrong: Int64(None) taken as well, read as 0
IsInt64ScalarOrNull(idx_col) ==
    idx_col.kind = "Scalar" /\ idx_col.dtype = "Int64"

\* ColumnarValue::Scalar(ScalarValue::Int64(Some(idx)))
IsInt64Scalar(idx_col) ==
    idx_col.kind = "Scalar" /\ idx_col.dtype = "Int64" /\ idx_col.vals[1].some

\* the validation gone wrong: only indexes below -1 are rejected
IdxRejectedBelowMinusOne(idx) == idx < -1

\* if idx < 0 the invocation is rejected
IdxRejected(idx) == idx < 0

\* steps 4 to 8, on the pair of broadcast arrays
InvokeOnArrays(arrays, idx_col, num_rows) ==
    IF ~downcast_ref_StringArray(arrays[1])
    THEN ErrResult("Internal", "Expected a StringArray", "", <<>>, 0)
    ELSE IF ~downcast_ref_StringArray(arrays[2])
    THEN ErrResult("Internal", "Expected a StringArray for pattern", "", <<>>, 0)
    ELSE IF ~IsInt64Scalar(idx_col)
    THEN ErrResult("Internal", "Expected a single Int64 for the index", "", <<>>, 0)
    ELSE IF IdxRejected(idx_col.vals[1].v)
    THEN ErrResult("Execution", "Group index must be a non-negative integer.", "",
                   <<>>, 0)
    ELSE RowLoop(arrays[1], arrays[2], idx_col.vals[1].v, num_rows, 1, <<>>, <<>>)

invoke_with_args(a) ==
    InvokeOnArrays(extract_input_and_pattern(a.args[1], a.args[2], a.number_rows),
                   a.args[3], a.number_rows)

(***************************************************************************)
(* The inputs the host engine hands over                                   *)
(***************************************************************************)
\* text values: null, "ab", "ba"
TextPool == {None, Some(<<"a", "b">>), Some(<<"b", "a">>)}

\* pattern values: (a)(b)  (a)|(b)  b  (a  (a)?b  and null
PatternPool ==
    {Some(<<"(", "a", ")", "(", "b", ")">>),
     Some(<<"(", "a", ")", "|", "(", "b", ")">>),
     Some(<<"b">>),
     Some(<<"(", "a">>),
     Some(<<"(", "a", ")", "?", "b">>),
     None}

\* a string argument: a StringArray of n rows, a Utf8 scalar, or a value of
\* another type (an Int64Array, an Int64 scalar, a LargeStringArray of "ab")
StringArgs(pool, n) ==
    {ColumnarArray("Utf8", v) : v \in [1..n -> pool]}
        \cup {ColumnarScalar("Utf8", x) : x \in pool}
        \cup {ColumnarArray("Int64", [i \in 1..n |-> IntSome(7)]),
              ColumnarScalar("Int64", IntSome(7)),
              ColumnarArray("LargeUtf8", [i \in 1..n |-> Some(<<"a", "b">>)])}

\* the group index argument: Int64(Some(g)), Int64(None), a scalar of another
\* type, an Int64Array
IdxArgs(n) ==
    {ColumnarScalar("Int64", IntSome(g)) : g \in -1..MaxIdx}
        \cup {ColumnarScalar("Int64", IntNone),
              ColumnarScalar("Int32", IntSome(1)),
              ColumnarArray("Int64", [i \in 1..n |-> IntSome(1)])}

\* ScalarFunctionArgs { args, number_rows }
FunctionArgs(input_col, pattern_col, idx_col, n) ==
    [args |-> <<input_col, pattern_col, idx_col>>, number_rows |-> n]

(***************************************************************************)
(* The state: the arguments of the current invocation, its outcome, and   *)
(* the invocation before it when the current one was derived from it.      *)
(***************************************************************************)
VARIABLES args, out, prev

vars == <<args, out, prev>>

NoPrev == [args |-> [args |-> <<>>, number_rows |-> 0], out |-> NotInvoked]

Init ==
    \E n \in 0..MaxRows :
        \E input_col \in StringArgs(TextPool, n), pattern_col \in StringArgs(PatternPool, n),
           idx_col \in IdxArgs(n) :
            /\ args = FunctionArgs(input_col, pattern_col, idx_col, n)
            /\ out = NotInvoked
            /\ prev = NoPrev

\* the host engine calls invoke_with_args on the batch
Invoke ==
    /\ out.kind = "None"
    /\ out' = invoke_with_args(args)
    /\ UNCHANGED <<args, prev>>

\* the host's column of n copies of a scalar's value
Copies(col, n) == ColumnarArray(col.dtype, [i \in 1..n |-> col.vals[1]])

\* the arguments at the positions of S, scalars, handed over as columns
Materialized(a, S) ==
    [a EXCEPT !.args = [k \in 1..3 |->
        IF k \in S THEN Copies(a.args[k], a.number_rows) ELSE a.args[k]]]

\* the host calls again with scalar arguments handed over as arrays
InvokeMaterialized(S) ==
    /\ out.kind # "None" /\ prev.out.kind = "None"
    /\ S # {}
    /\ \A k \in S : args.args[k].kind = "Scalar"
    /\ prev' = [args |-> args, out |-> out]
    /\ args' = Materialized(args, S)
    /\ out' = invoke_with_args(args')

Perms(n) == {f \in [1..n -> 1..n] : \A i, j \in 1..n : f[i] = f[j] => i = j}

PermutedCol(col, perm) ==
    IF col.kind = "Array"
    THEN [col EXCEPT !.vals = [i \in 1..Len(col.vals) |-> col.vals[perm[i]]]]
    ELSE col

Permuted(a, perm) ==
    [a EXCEPT !.args = <<PermutedCol(a.args[1], perm), PermutedCol(a.args[2], perm),
                         a.args[3]>>]

\* the host calls again, with the rows of a batch that gave a column in
\* another order
InvokePermuted(perm) ==
    /\ out.kind = "Ok" /\ prev.out.kind = "None"
    /\ args.args[1].dtype = "Utf8" /\ args.args[2].dtype = "Utf8"
    /\ Permuted(args, perm) # args
    /\ prev' = [args |-> args, out |-> out]
    /\ args' = Permuted(args, perm)
    /\ out' = invoke_with_args(args')

\* the host calls again with the one row of this batch at position j of
\* another batch, next to any other rows, and the same group index
InvokeEmbedded(n, j) ==
    /\ out.kind = "Ok" /\ prev.out.kind = "None"
    /\ args.number_rows = 1
    /\ args.args[1].kind = "Array" /\ args.args[2].kind = "Array"
    /\ \E tv \in [1..n -> TextPool], pv \in [1..n -> PatternPool] :
        /\ tv[j] = args.args[1].vals[1]
        /\ pv[j] = args.args[2].vals[1]
        /\ prev' = [args |-> args, out |-> out]
        /\ args' = FunctionArgs(ColumnarArray("Utf8", tv), ColumnarArray("Utf8", pv),
                                args.args[3], n)
        /\ out' = invoke_with_args(args')

Next ==
    \/ Invoke
    \/ \E S \in SUBSET {1, 2} : InvokeMaterialized(S)
    \/ \E perm \in Perms(args.number_rows) : InvokePermuted(perm)
    \/ \E n \in 1..MaxRows : \E j \in 1..n : InvokeEmbedded(n, j)

Spec == Init /\ [][Next]_vars

(***************************************************************************)
(* What the properties speak of: the logical rows of an invocation         *)
(***************************************************************************)
\* the value of an argument at row i: a scalar stands for the same value at every row
LogicalRow(col, i) == IF col.kind = "Scalar" THEN col.vals[1] ELSE col.vals[i]
TextAt(a, i) == LogicalRow(a.args[1], i)
PatternAt(a, i) == LogicalRow(a.args[2], i)

\* both string arguments are UTF-8 text
TextTyped(a) == a.args[1].dtype = "Utf8" /\ a.args[2].dtype = "Utf8"

\* the third argument is a present 64-bit integer scalar
PresentInt64(a) ==
    /\ a.args[3].kind = "Scalar"
    /\ a.args[3].dtype = "Int64"
    /\ a.args[3].vals[1].some

GroupIndex(a) == a.args[3].vals[1].v

\* the pattern at row i is present and compiles / is present and does not compile
Compiles(a, i) == PatternAt(a, i).some /\ RegexNew(PatternAt(a, i).v).ok
Malformed(a, i) == PatternAt(a, i).some /\ ~RegexNew(PatternAt(a, i).v).ok

\* the first match of row i's pattern in row i's text
FirstCaptures(a, i) == captures(RegexNew(PatternAt(a, i).v), TextAt(a, i).v)
GroupCount(a, i) == RegexNew(PatternAt(a, i).v).ng

\* row i has text, its pattern matches it and group g took part in the match
Participated(a, i, g) ==
    /\ TextAt(a, i).some /\ Compiles(a, i)
    /\ FirstCaptures(a, i).some
    /\ g >= 0 /\ g <= GroupCount(a, i)
    /\ FirstCaptures(a, i).spans[g + 1] # NoSpan

\* row i has text, its pattern matches it, 1 <= g <= k and group g took no part
NotParticipated(a, i, g) ==
    /\ TextAt(a, i).some /\ Compiles(a, i)
    /\ FirstCaptures(a, i).some
    /\ g >= 1 /\ g <= GroupCount(a, i)
    /\ FirstCaptures(a, i).spans[g + 1] = NoSpan

\* row i has text and a pattern that compiles, and the pattern does not match
\* or has fewer than g groups
NoMatchOrBeyond(a, i, g) ==
    /\ TextAt(a, i).some /\ Compiles(a, i)
    /\ (~FirstCaptures(a, i).some \/ g > GroupCount(a, i))

\* the text captured by group g at row i
Captured(a, i, g) ==
    SubSeq(TextAt(a, i).v, FirstCaptures(a, i).spans[g + 1][1],
           FirstCaptures(a, i).spans[g + 1][2] - 1)

Invoked == out.kind # "None"
Rows(a) == 1..a.number_rows

CompileError(o) == o.kind = "Err" /\ o.err = "Execution" /\ o.msg = "Error compiling regex"

(***************************************************************************)
(* C1: in every invocation that returns a column, a row with non-null text *)
(* whose own pattern matches it, with group g (0 <= g <= k) taking part in *)
(* the first match, holds the text captured by group g of that match; for  *)
(* g = 0 this is the whole leftmost match.                                 *)
(***************************************************************************)
C1_GroupExtracted ==
    out.kind = "Ok" =>
        \A i \in Rows(args) :
            Participated(args, i, GroupIndex(args)) =>
                out.rows[i] = Some(Captured(args, i, GroupIndex(args)))

\* text ["ab", "ba"], patterns ["(a)(b)", "(a)|(b)"], group 2 gives ["b", "b"]
C1_Witness ==
    /\ out.kind = "Ok" /\ args.number_rows = 2 /\ GroupIndex(args) = 2
    /\ args.args[1].kind = "Array" /\ args.args[2].kind = "Array"
    /\ TextAt(args, 1) = Some(<<"a", "b">>) /\ TextAt(args, 2) = Some(<<"b", "a">>)
    /\ PatternAt(args, 1) = Some(<<"(", "a", ")", "(", "b", ")">>)
    /\ PatternAt(args, 2) = Some(<<"(", "a", ")", "|", "(", "b", ")">>)
    /\ Participated(args, 1, 2) /\ Participated(args, 2, 2)
    /\ out.rows = <<Some(<<"b">>), Some(<<"b">>)>>

(***************************************************************************)
(* C2: when the arguments are well typed and the group index g is valid, a *)
(* row with non-null text whose pattern matches it, with 1 <= g <= k and   *)
(* group g taking no part in the first match, does not stop the            *)
(* invocation: it returns a column and that row is the empty string.       *)
(***************************************************************************)
C2_UnmatchedGroupIsEmpty ==
    (Invoked /\ TextTyped(args) /\ PresentInt64(args)) =>
        \A i \in Rows(args) :
            (/\ NotParticipated(args, i, GroupIndex(args))
             /\ \A j \in Rows(args) : TextAt(args, j).some => Compiles(args, j))
                => (out.kind = "Ok" /\ out.rows[i] = Some(<<>>))

(***************************************************************************)
(* C3: a row with non-null text and a pattern that compiles, whose pattern *)
(* does not match or has fewer than g groups, is the empty string in the   *)
(* column returned; and an invocation with well-typed arguments and a     *)
(* valid group index g whose rows are all of this kind or have null text   *)
(* returns a column.                                                       *)
(***************************************************************************)
C3_NoMatchIsEmpty ==
    /\ out.kind = "Ok" =>
        \A i \in Rows(args) :
            NoMatchOrBeyond(args, i, GroupIndex(args)) => out.rows[i] = Some(<<>>)
    /\ (/\ Invoked /\ TextTyped(args) /\ PresentInt64(args) /\ GroupIndex(args) >= 0
        /\ \A i \in Rows(args) :
              ~TextAt(args, i).some \/ NoMatchOrBeyond(args, i, GroupIndex(args)))
          => out.kind = "Ok"

\* a pattern without group asked for group 1, next to a pattern that does not match
C3_Witness ==
    /\ out.kind = "Ok" /\ args.number_rows = 2 /\ GroupIndex(args) = 1
    /\ TextAt(args, 1) = Some(<<"a", "b">>) /\ PatternAt(args, 1) = Some(<<"b">>)
    /\ FirstCaptures(args, 1).some /\ GroupCount(args, 1) = 0
    /\ TextAt(args, 2) = Some(<<"b", "a">>)
    /\ PatternAt(args, 2) = Some(<<"(", "a", ")", "(", "b", ")">>)
    /\ ~FirstCaptures(args, 2).some
    /\ out.rows = <<Some(<<>>), Some(<<>>)>>

(***************************************************************************)
(* C4: a row with null text is null in the column returned, whatever its   *)
(* pattern and the group index, and its pattern never goes through         *)
(* Regex::new: every row compiled has non-null text.                       *)
(***************************************************************************)
C4_NullPropagation ==
    /\ out.kind = "Ok" =>
        \A i \in Rows(args) : ~TextAt(args, i).some => out.rows[i] = None
    /\ Invoked =>
        \A k \in 1..Len(out.compiled) : TextAt(args, out.compiled[k]).some
    /\ (/\ Invoked /\ TextTyped(args) /\ PresentInt64(args) /\ GroupIndex(args) >= 0
        /\ \A i \in Rows(args) : ~TextAt(args, i).some)
          => (out.kind = "Ok" /\ out.compiled = <<>>)

\* a null text next to a pattern that would not compile, after a row that matched
C4_Witness ==
    /\ out.kind = "Ok" /\ args.number_rows = 2
    /\ TextAt(args, 1).some /\ ~TextAt(args, 2).some
    /\ Malformed(args, 2)
    /\ out.rows[1] # None /\ out.rows[2] = None
    /\ out.compiled = <<1>>

(***************************************************************************)
(* C5: with text and pattern columns of any content and any row count, a   *)
(* negative group index makes the invocation fail with the error "Group    *)
(* index must be a non-negative integer." before any row is processed: no  *)
(* pattern is compiled and no output row is built.                         *)
(***************************************************************************)
C5_NegativeIndexRejected ==
    (Invoked /\ TextTyped(args) /\ PresentInt64(args) /\ GroupIndex(args) < 0) =>
        /\ out.kind = "Err" /\ out.err = "Execution"
        /\ out.msg = "Group index must be a non-negative integer."
        /\ out.rows = <<>> /\ out.compiled = <<>> /\ out.built = 0

\* group -1 with a matching row and a malformed pattern
C5_Witness ==
    /\ Invoked /\ TextTyped(args) /\ PresentInt64(args) /\ GroupIndex(args) = -1
    /\ args.number_rows = 2
    /\ TextAt(args, 1).some /\ Compiles(args, 1) /\ FirstCaptures(args, 1).some
    /\ TextAt(args, 2).some /\ Malformed(args, 2)
    /\ out.msg = "Group index must be a non-negative integer."

BadRows(a) == {i \in Rows(a) : TextAt(a, i).some /\ Malformed(a, i)}
FirstBadRow(a) == CHOOSE i \in BadRows(a) : \A j \in BadRows(a) : i <= j

IsCopiesOf(col, scalar, n) ==
    /\ scalar.kind = "Scalar" /\ col.kind = "Array"
    /\ col.dtype = scalar.dtype
    /\ Len(col.vals) = n
    /\ \A i \in 1..n : col.vals[i] = scalar.vals[1]

\* b is a with some scalar string arguments materialized
IsMaterializationOf(b, a) ==
    /\ b.number_rows = a.number_rows
    /\ b.args[3] = a.args[3]
    /\ \A k \in {1, 2} :
          b.args[k] = a.args[k] \/ IsCopiesOf(b.args[k], a.args[k], a.number_rows)
    /\ \E k \in {1, 2} : b.args[k] # a.args[k]

Outcome(o) == [kind |-> o.kind, err |-> o.err, msg |-> o.msg, detail |-> o.detail,
               rows |-> o.rows]

C7_BroadcastEquivalence ==
    (prev.out.kind # "None" /\ IsMaterializationOf(args, prev.args)) =>
        Outcome(out) = Outcome(prev.out)

\* the scalar text "ab" against two patterns, and the column ["ab", "ab"]
C7_Witness ==
    /\ prev.out.kind = "Ok" /\ IsMaterializationOf(args, prev.args)
    /\ args.number_rows = 2 /\ GroupIndex(args) = 1
    /\ prev.args.args[1] = ColumnarScalar("Utf8", Some(<<"a", "b">>))
    /\ args.args[1] = ColumnarArray("Utf8", <<Some(<<"a", "b">>), Some(<<"a", "b">>)>>)
    /\ args.args[2] = prev.args.args[2]
    /\ out.rows = <<Some(<<"a">>), Some(<<>>)>>

(***************************************************************************)
(* C8: when the third argument is not a present Int64 scalar (a null       *)
(* integer, an array, a scalar of another type) the invocation fails with  *)
(* an error before any row is evaluated: no pattern is compiled, no row is *)
(* built, no column is returned; with string arguments the error is        *)
(* "Expected a single Int64 for the index".                                *)
(***************************************************************************)
C8_IndexMustBePresentInt64 ==
    (Invoked /\ ~PresentInt64(args)) =>
        /\ out.kind = "Err" /\ out.err = "Internal"
        /\ out.rows = <<>> /\ out.compiled = <<>> /\ out.built = 0
        /\ TextTyped(args) => out.msg = "Expected a single Int64 for the index"

\* a null Int64 index with a row that would match
C8_Witness ==
    /\ Invoked /\ TextTyped(args) /\ args.number_rows = 1
    /\ args.args[3] = ColumnarScalar("Int64", IntNone)
    /\ TextAt(args, 1).some /\ Compiles(args, 1) /\ FirstCaptures(args, 1).some
    /\ out.msg = "Expected a single Int64 for the index"

(***************************************************************************)
(* C9: every invocation ends with a column of exactly N rows or with an    *)
(* error and no rows; with N = 0, string arguments and a valid group index *)
(* it returns the empty column.                                            *)
(***************************************************************************)
C9_ColumnOrError ==
    Invoked =>
        /\ \/ out.kind = "Ok" /\ Len(out.rows) = args.number_rows
           \/ out.kind = "Err" /\ out.rows = <<>>
        /\ (/\ args.number_rows = 0 /\ TextTyped(args) /\ PresentInt64(args)
            /\ GroupIndex(args) >= 0)
              => (out.kind = "Ok" /\ out.rows = <<>>)

(***************************************************************************)
(* C10: of two invocations with the same group index that both return a    *)
(* column, rows with the same text and pattern hold the same value,        *)
(* whatever their position and the other rows; and the invocation on the   *)
(* permuted rows of an invocation that returned a column returns that      *)
(* column permuted the same way.                                           *)
(***************************************************************************)
SameRow(a, i, b, j) == TextAt(a, i) = TextAt(b, j) /\ PatternAt(a, i) = PatternAt(b, j)

IsPermutationOf(b, a, perm) == TextTyped(a) /\ b = Permuted(a, perm)

C10_RowIndependence ==
    /\ out.kind = "Ok" =>
        \A i, j \in Rows(args) : SameRow(args, i, args, j) => out.rows[i] = out.rows[j]
    /\ (out.kind = "Ok" /\ prev.out.kind = "Ok" /\ args.args[3] = prev.args.args[3]) =>
        \A i \in Rows(prev.args), j \in Rows(args) :
            SameRow(prev.args, i, args, j) => prev.out.rows[i] = out.rows[j]
    /\ prev.out.kind = "Ok" =>
        \A perm \in Perms(prev.args.number_rows) :
            IsPermutationOf(args, prev.args, perm) =>
                /\ out.kind = "Ok"
                /\ out.rows = [i \in Rows(args) |-> prev.out.rows[perm[i]]]

\* the rows ("ab", "(a)(b)") and ("ba", "b") swapped, group 0
C10_Witness ==
    /\ out.kind = "Ok" /\ prev.out.kind = "Ok"
    /\ args.number_rows = 2 /\ prev.args.number_rows = 2
    /\ GroupIndex(args) = 0
    /\ IsPermutationOf(args, prev.args, <<2, 1>>)
    /\ prev.out.rows = <<Some(<<"a", "b">>), Some(<<"b">>)>>
    /\ out.rows = <<Some(<<"b">>), Some(<<"a", "b">>)>>

\* the row ("ba", "(a)|(b)") alone, then second of two rows, group 2
C10_WitnessEmbedded ==
    /\ out.kind = "Ok" /\ prev.out.kind = "Ok"
    /\ prev.args.number_rows = 1 /\ args.number_rows = 2 /\ GroupIndex(args) = 2
    /\ SameRow(prev.args, 1, args, 2) /\ ~SameRow(prev.args, 1, args, 1)
    /\ prev.out.rows = <<Some(<<"b">>)>> /\ out.rows[2] = Some(<<"b">>)
    /\ out.rows[1] # out.rows[2]

(***************************************************************************)
(* C11: when the text argument, after broadcasting, is not a StringArray   *)
(* the invocation fails with the error "Expected a StringArray"; when the  *)
(* text is one and the pattern argument is not, it fails with "Expected a  *)
(* StringArray for pattern".  In both cases no row is evaluated: no        *)
(* pattern is compiled, no row is built, no column is returned, also when  *)
(* the argument holds strings in an array of another type.                 *)
(***************************************************************************)
C11_TypeMismatchReported ==
    (Invoked /\ ~TextTyped(args)) =>
        /\ out.kind = "Err" /\ out.err = "Internal"
        /\ out.msg = IF args.args[1].dtype # "Utf8"
                     THEN "Expected a StringArray"
                     ELSE "Expected a StringArray for pattern"
        /\ out.rows = <<>> /\ out.compiled = <<>> /\ out.built = 0

\* a LargeStringArray ["ab", "ab"] as text, with the pattern "b" and group 0
C11_Witness ==
    /\ Invoked /\ args.number_rows = 2
    /\ args.args[1] = ColumnarArray("LargeUtf8", <<Some(<<"a", "b">>), Some(<<"a", "b">>)>>)
    /\ args.args[2] = ColumnarScalar("Utf8", Some(<<"b">>))
    /\ PresentInt64(args) /\ GroupIndex(args) = 0
    /\ out.msg = "Expected a StringArray" /\ out.compiled = <<>>

\* an Int64Array as pattern next to a text column
C11_WitnessPattern ==
    /\ Invoked /\ args.number_rows = 1
    /\ args.args[1].dtype = "Utf8" /\ args.args[2].dtype = "Int64"
    /\ TextAt(args, 1).some
    /\ out.msg = "Expected a StringArray for pattern" /\ out.compiled = <<>>

(***************************************************************************)
(* C12: with string arguments and a present non-negative group index, a    *)
(* null pattern at a row with non-null text makes the invocation fail with *)
(* the error "Error compiling regex".  The row is taken as the first row   *)
(* with non-null text, so that nothing before it can end the invocation.   *)
(***************************************************************************)
C12_NullPatternFails ==
    (Invoked /\ TextTyped(args) /\ PresentInt64(args) /\ GroupIndex(args) >= 0) =>
        \A i \in Rows(args) :
            (/\ TextAt(args, i).some /\ ~PatternAt(args, i).some
             /\ \A j \in 1..(i - 1) : ~TextAt(args, j).some)
                => CompileError(out)

\* what the code does with such a row: pattern_array.value(i) reads the null
\* slot as "", which compiles and matches, and the row holds ""
C12_NullPatternReadAsEmpty ==
    (Invoked /\ TextTyped(args) /\ PresentInt64(args) /\ GroupIndex(args) >= 0) =>
        \A i \in Rows(args) :
            (/\ TextAt(args, i).some /\ ~PatternAt(args, i).some
             /\ \A j \in 1..(i - 1) : ~TextAt(args, j).some)
                => /\ ~CompileError(out) \/ out.compiled[Len(out.compiled)] > i
                   /\ out.kind = "Ok" => out.rows[i] = Some(<<>>)
                   /\ out.compiled # <<>> /\ out.compiled[1] = i

(***************************************************************************)
(* Invocations of up to MaxRows + 1 rows, for the order of the errors: an  *)
(* earlier row can end the loop before two later rows whose patterns do    *)
(* not compile.  Texts are null or "ba"; patterns are (a  (a)?b  b.        *)
(***************************************************************************)
PrecedenceTextPool == {None, Some(<<"b", "a">>)}
PrecedencePatternPool ==
    {Some(<<"(", "a">>), Some(<<"(", "a", ")", "?", "b">>), Some(<<"b">>)}

InitPrecedence ==
    \E n \in 0..(MaxRows + 1) :
        \E input_col \in StringArgs(PrecedenceTextPool, n),
           pattern_col \in StringArgs(PrecedencePatternPool, n),
           idx_col \in IdxArgs(n) :
            /\ args = FunctionArgs(input_col, pattern_col, idx_col, n)
            /\ out = NotInvoked
            /\ prev = NoPrev

NextPrecedence == Invoke

SpecPrecedence == InitPrecedence /\ [][NextPrecedence]_vars

\* the error conditions that hold for the arguments a, numbered in the order
\* of the claim: 1 text not a string array, 2 pattern not a string array,
\* 3 group index not a present Int64 scalar, 4 group index negative, 4 + i a
\* pattern that does not compile at row i, whose text is not null
ErrorConditions(a) ==
    {c \in 1..4 : \/ c = 1 /\ a.args[1].dtype # "Utf8"
                  \/ c = 2 /\ a.args[2].dtype # "Utf8"
                  \/ c = 3 /\ ~PresentInt64(a)
                  \/ c = 4 /\ PresentInt64(a) /\ GroupIndex(a) < 0}
        \cup {4 + i : i \in (IF a.args[2].dtype = "Utf8" THEN BadRows(a) ELSE {})}

FirstCondition(a) ==
    CHOOSE c \in ErrorConditions(a) : \A d \in ErrorConditions(a) : c <= d

\* the outcome o is the error of condition c
ReportsCondition(o, a, c) ==
    /\ o.kind = "Err" /\ o.rows = <<>>
    /\ CASE c = 1 -> o.err = "Internal" /\ o.msg = "Expected a StringArray"
         [] c = 2 -> o.err = "Internal" /\ o.msg = "Expected a StringArray for pattern"
         [] c = 3 -> o.err = "Internal" /\ o.msg = "Expected a single Int64 for the index"
         [] c = 4 -> /\ o.err = "Execution"
                     /\ o.msg = "Group index must be a non-negative integer."
         [] OTHER -> /\ CompileError(o)
                     /\ o.compiled[Len(o.compiled)] = c - 4
                     /\ o.detail = RegexNew(PatternAt(a, c - 4).v).err

(***************************************************************************)
(* C13: when two or more error conditions hold in one invocation, the      *)
(* invocation returns exactly one error, that of the first condition in    *)
(* the order: text type, pattern type, group index not a present Int64,    *)
(* group index negative, then the rows with non-null text whose pattern    *)
(* does not compile, lowest row first.                                     *)
(***************************************************************************)
C13_ErrorPrecedence ==
    (Invoked /\ Cardinality(ErrorConditions(args)) >= 2) =>
        ReportsCondition(out, args, FirstCondition(args))

\* the order as the code keeps it: the first condition is reported, unless
\* the unwrap of a row before the first malformed one panicked
C13_PrecedenceUnlessPanicked ==
    (Invoked /\ ErrorConditions(args) # {}) =>
        \/ ReportsCondition(out, args, FirstCondition(args))
        \/ /\ out.kind = "Panic"
           /\ FirstCondition(args) > 4
           /\ out.compiled[Len(out.compiled)] < FirstCondition(args) - 4
           /\ NotParticipated(args, out.compiled[Len(out.compiled)], GroupIndex(args))

\* a negative group index next to a malformed pattern: the index is reported
C13_WitnessNegativeIndex ==
    /\ Invoked /\ TextTyped(args) /\ PresentInt64(args) /\ GroupIndex(args) < 0
    /\ BadRows(args) # {}
    /\ out.msg = "Group index must be a non-negative integer."

\* two malformed rows after a row whose unwrap panicked
C13_WitnessPanicBeforeErrors ==
    /\ out.kind = "Panic" /\ args.number_rows = 3
    /\ TextTyped(args) /\ BadRows(args) = {2, 3}
    /\ out.compiled = <<1>>

=============================================================================
